---- MODULE Spec2Model ----
(***************************************************************************)
(* A model of the racy ray tracer: vector arithmetic, sphere and plane     *)
(* intersection, Scene::cast, the materials' color_at recursion and the    *)
(* data-parallel render loop.                                              *)
(*                                                                         *)
(* Numbers.  The program computes in f64 (geometry) and f32 (colour).      *)
(* The model computes in fixed point: a number v is the integer            *)
(* round(v * Scale), every product and quotient is rounded to the nearest  *)
(* unit, and the IEEE special values a division by zero produces are kept  *)
(* as three values outside the finite range (NaN, PInf, NInf).             *)
(*                                                                         *)
(* Arguments.  Rust evaluates an argument once, before the call.  Where a   *)
(* definition uses an argument several times it binds it first:            *)
(* Only({e : p \in {a}}) is e with a evaluated once and named p.            *)
(***************************************************************************)
EXTENDS Integers, Sequences, FiniteSets, TLC

\* Units per 1.0 of the fixed-point representation.
Scale == 1000

\* The element of a one-element set.
Only(S) == CHOOSE v \in S : TRUE

\* ------------------------------------------------------------------ numbers

\* The finite numbers lie strictly between -Big and Big.  A result outside
\* that range is an infinity, as is a non-zero number divided by zero; 0/0,
\* inf - inf, 0 * inf, inf / inf and the root of a negative number are NaN.
Big == 2^29
PInf == Big
NInf == -Big
NaN == Big + 1

IsNaN(a) == a = NaN
IsFinite(a) == a > NInf /\ a < PInf

\* The infinity a finite result v outside the range becomes.
Clamp(v) == Only({IF p >= Big THEN PInf ELSE IF p <= -Big THEN NInf ELSE p : p \in {v}})

\* n / d rounded to the nearest integer (d # 0).
RoundDiv(n, d) ==
  Only({IF e > 0 THEN (n + (e \div 2)) \div e ELSE ((-n) + ((-e) \div 2)) \div (-e) :
          e \in {d}})

\* The literal n/d and the whole number n as fixed-point numbers.
Lit(n, d) == RoundDiv(n * Scale, d)
Num(n) == n * Scale

Neg(a) == Only({IF p = NaN THEN NaN ELSE -p : p \in {a}})

FAbs(a) == Only({IF p = NaN THEN NaN ELSE IF p < 0 THEN -p ELSE p : p \in {a}})

\* -1, 0 or 1.
Sign(a) == Only({IF p < 0 THEN -1 ELSE IF p > 0 THEN 1 ELSE 0 : p \in {a}})

Add(a, b) ==
  Only({IF p = NaN \/ q = NaN THEN NaN
        ELSE IF (p = PInf /\ q = NInf) \/ (p = NInf /\ q = PInf) THEN NaN
        ELSE IF p = PInf \/ q = PInf THEN PInf
        ELSE IF p = NInf \/ q = NInf THEN NInf
        ELSE Clamp(p + q) : p \in {a}, q \in {b}})

Sub(a, b) == Add(a, Neg(b))

\* p * q / Scale for finite p, q >= 0, rounded to the nearest unit.  The
\* product is summed from the whole and fractional parts of p and q, so
\* that no step leaves the 32-bit integers.
MulMag(p, q) ==
  IF (p \div Scale) > 0 /\ (q \div Scale) > (Big \div Scale) \div (p \div Scale)
    THEN PInf
    ELSE Clamp(((p \div Scale) * (q \div Scale) * Scale)
                 + ((p \div Scale) * (q % Scale))
                 + ((p % Scale) * (q \div Scale))
                 + RoundDiv((p % Scale) * (q % Scale), Scale))

Mul(a, b) ==
  Only({IF p = NaN \/ q = NaN THEN NaN
        ELSE IF p = 0 \/ q = 0
          THEN (IF IsFinite(p) /\ IsFinite(q) THEN 0 ELSE NaN)
        ELSE IF ~IsFinite(p) \/ ~IsFinite(q) THEN Sign(p) * Sign(q) * PInf
        ELSE Sign(p) * Sign(q) * MulMag(FAbs(p), FAbs(q)) : p \in {a}, q \in {b}})

\* p / q for finite p >= 0, q > 0, rounded to the nearest unit; a divisor
\* too large to scale the remainder by is used to the unit of 1.0.
DivMag(p, q) ==
  IF q < Big \div Scale
    THEN (IF p \div q >= Big \div Scale THEN PInf
          ELSE Clamp(((p \div q) * Scale) + RoundDiv((p % q) * Scale, q)))
    ELSE RoundDiv(p, q \div Scale)

Div(a, b) ==
  Only({IF p = NaN \/ q = NaN THEN NaN
        ELSE IF q = 0 THEN (IF p = 0 THEN NaN ELSE IF p > 0 THEN PInf ELSE NInf)
        ELSE IF ~IsFinite(p) THEN (IF IsFinite(q) THEN Sign(p) * Sign(q) * PInf ELSE NaN)
        ELSE IF ~IsFinite(q) THEN 0
        ELSE Sign(p) * Sign(q) * DivMag(FAbs(p), FAbs(q)) : p \in {a}, q \in {b}})

\* a < b and friends as IEEE compares them: every comparison with NaN is false.
Lt(a, b) == Only({p # NaN /\ q # NaN /\ p < q : p \in {a}, q \in {b}})
Gt(a, b) == Lt(b, a)
Le(a, b) == Only({p # NaN /\ q # NaN /\ p <= q : p \in {a}, q \in {b}})

\* The integer nearest to sqrt(n), n >= 0, by bisection on lo^2 <= n < hi^2.
RECURSIVE SqrtBisect(_, _, _)
SqrtBisect(n, lo, hi) ==
  IF hi - lo <= 1 THEN (IF n - (lo * lo) > lo THEN lo + 1 ELSE lo)
  ELSE CHOOSE r \in {IF mid * mid <= n THEN SqrtBisect(n, mid, hi)
                                      ELSE SqrtBisect(n, lo, mid) :
                     mid \in {(lo + hi) \div 2}} : TRUE

ISqrt(n) == SqrtBisect(n, 0, 46340)

\* The largest r in lo..hi-1 with r * r / Scale <= a, for an a too large
\* for ISqrt(a * Scale).
RECURSIVE SqrtLarge(_, _, _)
SqrtLarge(a, lo, hi) ==
  IF hi - lo <= 1 THEN lo
  ELSE CHOOSE r \in {IF MulMag(mid, mid) <= a THEN SqrtLarge(a, mid, hi)
                                            ELSE SqrtLarge(a, lo, mid) :
                     mid \in {(lo + hi) \div 2}} : TRUE

Sqrt(a) ==
  Only({IF p = NaN \/ p < 0 THEN NaN
        ELSE IF p = PInf THEN PInf
        ELSE IF p < Big \div Scale THEN ISqrt(p * Scale)
        ELSE SqrtLarge(p, 0, Big) : p \in {a}})

\* ------------------------------------------------------------------ Vector

Vec(x, y, z) == [x |-> x, y |-> y, z |-> z]

\* Vector::new: the zero vector.
Vector_new == Vec(0, 0, 0)

add(a, b) ==
  Only({Vec(Add(p.x, q.x), Add(p.y, q.y), Add(p.z, q.z)) : p \in {a}, q \in {b}})
sub(a, b) ==
  Only({Vec(Sub(p.x, q.x), Sub(p.y, q.y), Sub(p.z, q.z)) : p \in {a}, q \in {b}})
mul(a, b) ==
  Only({Vec(Mul(p.x, q), Mul(p.y, q), Mul(p.z, q)) : p \in {a}, q \in {b}})
div(a, b) ==
  Only({Vec(Div(p.x, q), Div(p.y, q), Div(p.z, q)) : p \in {a}, q \in {b}})

dot(a, b) ==
  Only({Add(Add(Mul(p.x, q.x), Mul(p.y, q.y)), Mul(p.z, q.z)) : p \in {a}, q \in {b}})

length_squared(a) == Only({dot(p, p) : p \in {a}})

length(a) == Sqrt(length_squared(a))

\* normalize divides each component by the length in place; no test of the
\* length is made, so the zero vector becomes (0/0, 0/0, 0/0).
normalized(a) == Only({div(p, length(p)) : p \in {a}})

normalize(a) == Only({div(p, length(p)) : p \in {a}})

VecFinite(a) == IsFinite(a.x) /\ IsFinite(a.y) /\ IsFinite(a.z)

\* --------------------------------------------------------------------- Ray

Ray(origin, direction) == [origin |-> origin, direction |-> direction]

\* ------------------------------------------------------------------ Sphere

None == [hit |-> FALSE]

Sphere_new(center, radius, material) ==
  [kind |-> "sphere", center |-> center, radius |-> radius,
   radius_squared |-> Mul(radius, radius), material |-> material]

\* Sphere::intersects without its early exit.
SphereNeverBehind(t) == FALSE

\* The early exit of Sphere::intersects: the sphere is behind the ray.
SphereBehind(t) == Lt(t, 0)

\* Sphere::intersects: Some(SphereIntersection) or None.
Sphere_intersects(self, ray) ==
  LET to_center == sub(self.center, ray.origin)
      t == dot(ray.direction, to_center)
      y_squared == length_squared(sub(mul(ray.direction, t), to_center))
  IN IF SphereBehind(t) THEN None
     ELSE IF Gt(y_squared, self.radius_squared) THEN None
     ELSE [hit |-> TRUE, y_squared |-> y_squared,
           radius_squared |-> self.radius_squared, ray |-> ray, t |-> t,
           sphere_center |-> self.center]

\* The parametric distance SphereIntersection::point scales the direction
\* by: t - x with x = sqrt(radius^2 - y^2).
SphereIntersection_dist(self) ==
  LET x == Sqrt(Sub(self.radius_squared, self.y_squared))
  IN Sub(self.t, x)

SphereIntersection_point(self) ==
  add(self.ray.origin, mul(self.ray.direction, SphereIntersection_dist(self)))

SphereIntersection_normal(self) ==
  normalize(sub(SphereIntersection_point(self), self.sphere_center))

\* ------------------------------------------------------------------- Plane

Plane_new(center, normal, material) ==
  [kind |-> "plane", center |-> center, normal |-> normalized(normal),
   material |-> material]

\* a < 0.0001, the epsilon of Plane::intersects (compared without rounding).
LtEpsilon(a) == a # NaN /\ (a <= 0 \/ (a < Scale /\ a * 10000 < Scale))

\* Plane::intersects without its parallel test.
PlaneNeverParallel(denominator) == FALSE

\* The parallel test of Plane::intersects: |denominator| < 0.0001.
PlaneParallel(denominator) == LtEpsilon(FAbs(denominator))

\* The self-intersection test of Plane::intersects: t < 0.0001.
PlaneTooNear(t) == LtEpsilon(t)

Plane_intersects(self, ray) ==
  LET denominator == dot(self.normal, ray.direction)
      t == Div(dot(sub(self.center, ray.origin), self.normal), denominator)
  IN IF PlaneParallel(denominator) THEN None
     ELSE IF PlaneTooNear(t) THEN None
     ELSE [hit |-> TRUE, t |-> t, normal |-> self.normal, ray |-> ray]

PlaneIntersection_point(self) == mul(self.ray.direction, self.t)

PlaneIntersection_normal(self) == self.normal

\* ------------------------------------------------------------------ Camera

\* core::f64::consts::PI and PI / 2.0.
PI == Lit(314159, 100000)
HalfPI == Div(PI, Num(2))

\* sin by its Taylor polynomial on [-PI/2, PI/2].
SinTerms(x, x2) ==
  x - RoundDiv(Mul(x, x2), 6) + RoundDiv(Mul(Mul(x, x2), x2), 120)
    - RoundDiv(Mul(Mul(Mul(x, x2), x2), x2), 5040)

SinSeries(x) == SinTerms(x, Mul(x, x))

\* sin of any angle: reduce to [-PI/2, PI/2], then the polynomial.
RECURSIVE Sin(_)
Sin(a) ==
  IF a > HalfPI THEN Neg(Sin(a - PI))
  ELSE IF a < -HalfPI THEN Neg(Sin(a + PI))
  ELSE SinSeries(a)

Cos(a) == Sin(a + HalfPI)

\* Camera::set_angle: the view and "right" vectors of a yaw.
set_angle(self, angle) ==
  [self EXCEPT
     !.angle = angle,
     !.look = normalize(Vec(Neg(Sin(angle)), 0, Neg(Cos(angle)))),
     !.perp = normalize(Vec(Neg(Sin(Add(angle, HalfPI))), 0,
                            Neg(Cos(Add(angle, HalfPI)))))]

\* Camera::new: the stepping constants, then set_angle(0).  The screen
\* dimensions are integers (u32) converted to f64.
Camera_new(eye, fovy, screen_width, screen_height) ==
  LET fovx == Mul(Div(Num(screen_width), Num(screen_height)), fovy)
      xstart == Div(Mul(Lit(-1, 2), fovx), Num(45))
      ystart == Div(Mul(Lit(1, 2), fovy), Num(45))
      xmult == Div(Div(fovx, Num(45)), Num(screen_width))
      ymult == Div(Neg(Div(fovy, Num(45))), Num(screen_height))
  IN set_angle([eye |-> eye, look |-> Vector_new, perp |-> Vector_new,
                angle |-> 0, screen_width |-> screen_width,
                screen_height |-> screen_height, xstart |-> xstart,
                ystart |-> ystart, xmult |-> xmult, ymult |-> ymult],
               0)

\* Camera::get_ray_from_uv, u and v being pixel column and row.
get_ray_from_uv(self, u, v) ==
  LET p == sub(self.look, mul(self.perp, Add(self.xstart, Mul(Num(u), self.xmult))))
      direction == Vec(p.x, Add(self.ystart, Mul(Num(v), self.ymult)), p.z)
  IN Ray(self.eye, normalize(direction))

\* ---------------------------------------------------------------- HDRColor

HDRColor(r, g, b) == [r |-> r, g |-> g, b |-> b]

BLACK == HDRColor(0, 0, 0)

color_scale(a, b) ==
  Only({HDRColor(Mul(p.r, q), Mul(p.g, q), Mul(p.b, q)) : p \in {a}, q \in {b}})
color_mul(a, b) ==
  Only({HDRColor(Mul(p.r, q.r), Mul(p.g, q.g), Mul(p.b, q.b)) : p \in {a}, q \in {b}})
color_div(a, b) ==
  Only({HDRColor(Div(p.r, q), Div(p.g, q), Div(p.b, q)) : p \in {a}, q \in {b}})
color_add(a, b) ==
  Only({HDRColor(Add(p.r, q.r), Add(p.g, q.g), Add(p.b, q.b)) : p \in {a}, q \in {b}})

\* x.powf(gamma) for a gamma that is a whole number (GAMMA is 1.0).
RECURSIVE Powf(_, _)
Powf(x, gamma) ==
  IF gamma <= 0 THEN Num(1)
  ELSE IF gamma = Num(1) THEN x
  ELSE Mul(x, Powf(x, gamma - Num(1)))

\* f32::min and f32::max return the other argument when one is NaN.
FMin(a, b) ==
  Only({IF p = NaN THEN q ELSE IF q = NaN THEN p ELSE IF p < q THEN p ELSE q :
          p \in {a}, q \in {b}})
FMax(a, b) ==
  Only({IF p = NaN THEN q ELSE IF q = NaN THEN p ELSE IF p > q THEN p ELSE q :
          p \in {a}, q \in {b}})

\* A conversion to u8 that drops the fraction where the code rounds.
TruncToU8(v) == FMax(FMin((255 * v) \div Scale, 255), 0)

\* (255.0 * v).round() as u8 for a clamped v: round half away from zero,
\* then the saturating cast.
RoundToU8(v) == FMax(FMin(RoundDiv(255 * v, Scale), 255), 0)

DisplayChannel(c, exposure, gamma) ==
  RoundToU8(FMax(FMin(Powf(Mul(c, exposure), gamma), Num(1)), 0))

\* HDRColor::into_display_rgb.
into_display_rgb(self, exposure, gamma) ==
  [r |-> DisplayChannel(self.r, exposure, gamma),
   g |-> DisplayChannel(self.g, exposure, gamma),
   b |-> DisplayChannel(self.b, exposure, gamma),
   a |-> 255]

\* --------------------------------------------------------------- materials

MAX_MIRROR_DEPTH == 5

DiffuseColor(color) == [kind |-> "Diffuse", color |-> color]
DEBUG_NORMALS == [kind |-> "DebugNormals"]
MIRROR == [kind |-> "Mirror", reflectivity |-> Lit(8, 10)]
GLASS == [kind |-> "Refractor", refractive_index |-> Lit(152, 100)]
WATER == [kind |-> "Refractor", refractive_index |-> Lit(133, 100)]

Light(center, color, radius) == [center |-> center, color |-> color, radius |-> radius]

\* A depth argument passed on as it is, where the code passes depth + 1.
U8Same(depth) == depth

\* depth + 1 on a u8.
U8Inc(depth) == (depth + 1) % 256

\* A terminal rule that lets one more level through.
TooDeepLate(depth) == depth > MAX_MIRROR_DEPTH + 1

\* The terminal rule at the head of the Diffuse, Mirror and Refractor
\* color_at: depth > MAX_MIRROR_DEPTH.
TooDeep(depth) == depth > MAX_MIRROR_DEPTH

\* ------------------------------------------------------------------- Scene

\* What a primitive reports for a ray: whether it is hit, the point its
\* intersection gives, and the parametric distance of that point.
SphereHit(intersection) ==
  Only({IF i.hit
          THEN [hit |-> TRUE, point |-> SphereIntersection_point(i),
                t |-> SphereIntersection_dist(i)]
          ELSE None : i \in {intersection}})

PlaneHit(intersection) ==
  Only({IF i.hit THEN [hit |-> TRUE, point |-> PlaneIntersection_point(i), t |-> i.t]
        ELSE None : i \in {intersection}})

Renderable_intersects(object, ray) ==
  Only({IF o.kind = "sphere" THEN SphereHit(Sphere_intersects(o, r))
        ELSE PlaneHit(Plane_intersects(o, r)) : o \in {object}, r \in {ray}})

\* Renderable::normal: a sphere's is normalize(point - center), a plane's
\* is its fixed normal.
Renderable_normal(object, point) ==
  IF object.kind = "sphere" THEN normalize(sub(point, object.center))
  ELSE object.normal

\* The value Scene::cast hands to the materials and to render.
Intersection(renderable_idx, t, depth) ==
  [hit |-> TRUE, renderable_idx |-> renderable_idx, t |-> t, depth |-> depth]

\* A scan that lets a later primitive at the same distance replace the
\* closest one so far.
CloserOrEqual(this_dist_squared, closest_dist_squared) ==
  Le(this_dist_squared, closest_dist_squared)

\* The comparison of Scene::cast's scan: a later primitive replaces the
\* closest one so far only when it is strictly closer.
Closer(this_dist_squared, closest_dist_squared) ==
  Lt(this_dist_squared, closest_dist_squared)

\* One arm of the scan's match: intersection_obj after a primitive that is
\* hit at this_dist_squared from the ray origin.  best is intersection_obj,
\* None or [hit, idx, t, dist_squared].
CastKeep(idx, this, this_dist_squared, best) ==
  Only({IF ~best.hit \/ Closer(d, best.dist_squared)
          THEN [hit |-> TRUE, idx |-> idx, t |-> this.t, dist_squared |-> d]
          ELSE best : d \in {this_dist_squared}})

\* The body of the scan's loop for primitive idx, this being what
\* object.intersects(ray) returned.
CastStep(ray, idx, this, best) ==
  Only({IF ~i.hit THEN b
        ELSE CastKeep(idx, i, length_squared(sub(ray.origin, i.point)), b) :
          i \in {this}, b \in {best}})

\* The scan of Scene::cast from primitive idx on.
RECURSIVE CastScan(_, _, _, _)
CastScan(renderables, ray, idx, best) ==
  IF idx > Len(renderables) THEN best
  ELSE CastScan(renderables, ray, idx + 1,
                CastStep(ray, idx, Renderable_intersects(renderables[idx], ray), best))

\* What the Scene::cast that render and the materials call returns for
\* what the scan kept: None, or the Intersection of the primitive kept,
\* carrying the depth it was given.
CastResult(best, depth) ==
  IF best.hit THEN Intersection(best.idx, best.t, depth) ELSE None

\* Scene::cast as render and the materials call it: the scan, then the
\* Intersection; the color_at call is the caller's.
cast(scene, ray, depth) ==
  Only({CastResult(best, depth) :
          best \in {Only({CastScan(scene.renderables, r, 1, None) : r \in {ray}})}})

\* ------------------------------------------------------- Diffuse::color_at

\* Vector::random_norm draws a unit vector; the model draws one of the six
\* axis directions.
RandomNorms ==
  {Vec(Num(1), 0, 0), Vec(Num(-1), 0, 0), Vec(0, Num(1), 0),
   Vec(0, Num(-1), 0), Vec(0, 0, Num(1)), Vec(0, 0, Num(-1))}

\* 1 + (light.radius * 5.0).round() as usize
light_samples(light) == 1 + FMax(RoundDiv(5 * light.radius, Scale), 0)

\* A shadow test that takes any hit of the shadow ray for an occluder.
OccludedByAnyHit(shadow, dist_to_light) == shadow.hit

\* The shadow test of one sample: the sample is skipped when the shadow
\* ray's nearest hit is nearer than the light.
Occluded(shadow, dist_to_light) ==
  Only({i.hit /\ Lt(i.t, dist_to_light) : i \in {shadow}})

\* What one unoccluded sample adds: light.color * intensity * theta_cos.
SampleColor(light, to_light, normal, samples) ==
  LET theta_cos == dot(to_light, normal)
      intensity == Div(Num(1), Mul(length_squared(to_light), Num(samples)))
  IN color_scale(color_scale(light.color, intensity), theta_cos)

\* to_light of one sample, rnd being the unit vector drawn for it, and the
\* shadow ray cast along it.
ToLight(light, rnd, point) == sub(add(light.center, mul(rnd, light.radius)), point)

ShadowRay(point, to_light) == Ray(point, normalized(to_light))

\* One pass of the inner loop.
LightSample(light, rnd, point, normal, scene, depth) ==
  Only({IF Occluded(cast(scene, ShadowRay(point, to_light), U8Inc(depth)),
                    length(to_light))
          THEN BLACK
          ELSE SampleColor(light, to_light, normal, light_samples(light)) :
          to_light \in {ToLight(light, rnd, point)}})

RECURSIVE SumSamples(_, _, _, _, _, _, _)
SumSamples(light, rnds, k, point, normal, scene, depth) ==
  IF k > light_samples(light) THEN BLACK
  ELSE color_add(LightSample(light, rnds[k], point, normal, scene, depth),
                 SumSamples(light, rnds, k + 1, point, normal, scene, depth))

RECURSIVE SumLights(_, _, _, _, _, _)
SumLights(jitter, l, point, normal, scene, depth) ==
  IF l > Len(scene.lights) THEN BLACK
  ELSE color_add(SumSamples(scene.lights[l], jitter[l], 1, point, normal, scene, depth),
                 SumLights(jitter, l + 1, point, normal, scene, depth))

Min(a, b) == IF a < b THEN a ELSE b

\* Every photon of the scene sampled, where the code samples min(len, 0).
PhotonSamplesAll(scene) == Len(scene.photons)

\* scene.photons.len().min(0)
photon_samples(scene) == Min(Len(scene.photons), 0)

\* One pass of the photon loop.
PhotonSample(light, samples, point, normal, scene, depth) ==
  LET to_light == sub(light.center, point)
      dist_to_light == length(to_light)
      shadow == cast(scene, Ray(point, normalized(to_light)), U8Inc(depth))
      theta_cos == dot(to_light, normal)
      intensity == Div(Num(1), length_squared(to_light))
  IN IF Le(dist_to_light, Lit(1, 100)) THEN BLACK
     ELSE IF Occluded(shadow, dist_to_light) THEN BLACK
     ELSE color_scale(color_scale(color_div(light.color, Num(samples)), intensity),
                      theta_cos)

\* The photon loop over the photons choose_multiple picked.
RECURSIVE SumPhotons(_, _, _, _, _, _)
SumPhotons(chosen, k, point, normal, scene, depth) ==
  IF k > Len(chosen) THEN BLACK
  ELSE color_add(PhotonSample(scene.photons[chosen[k]], Len(chosen), point, normal,
                              scene, depth),
                 SumPhotons(chosen, k + 1, point, normal, scene, depth))

\* The draws a Diffuse evaluation makes: one unit vector per light sample
\* (a point light's is scaled by radius 0, so one stands for all).
Jitters(scene) ==
  [l \in 1..Len(scene.lights) |->
     [k \in 1..light_samples(scene.lights[l]) |->
        IF scene.lights[l].radius = 0 THEN {Vec(Num(1), 0, 0)} ELSE RandomNorms]]

RECURSIVE SeqsOver(_, _)
SeqsOver(sets, n) ==
  IF n = 0 THEN {<<>>}
  ELSE {Append(s, x) : s \in SeqsOver(sets, n - 1), x \in sets[n]}

JitterChoices(scene) ==
  LET J == Jitters(scene)
      perLight == [l \in 1..Len(scene.lights) |-> SeqsOver(J[l], light_samples(scene.lights[l]))]
  IN SeqsOver(perLight, Len(scene.lights))

\* choose_multiple(rng, amount): every sequence of amount distinct indices
\* of a slice of n elements.
ChooseMultiple(n, amount) ==
  {s \in [1..amount -> 1..n] : \A a, b \in 1..amount : a # b => s[a] # s[b]}

\* DiffuseColor::color_at.
DiffuseColor_color_at(self, point, normal, scene, depth, jitter, chosen) ==
  IF TooDeep(depth) THEN BLACK
  ELSE color_mul(self.color,
                 color_add(SumLights(jitter, 1, point, normal, scene, depth),
                           SumPhotons(chosen, 1, point, normal, scene, depth)))

\* DebugNormals::color_at.
DebugNormals_color_at(normal) ==
  HDRColor(Div(Add(Num(1), normal.x), Num(2)),
           Div(Add(Num(1), normal.y), Num(2)),
           Sub(Lit(1, 2), normal.z))

\* The reflected ray Mirror and Refractor cast: d - 2 (d . n) n from point.
Reflection(point, normal, ray) ==
  LET neg_norm == mul(normal, Num(-1))
      mirror_direction ==
        sub(ray.direction, mul(mul(neg_norm, Num(2)), dot(ray.direction, neg_norm)))
  IN Ray(point, mirror_direction)

\* The factor Mirror scales the reflected colour by.
Mirror_factor(self, depth) == self.reflectivity

\* The factor Refractor scales it by: 1.0 - depth / MAX_MIRROR_DEPTH.
Refractor_factor(self, depth) ==
  Sub(Num(1), Div(Num(depth), Num(MAX_MIRROR_DEPTH)))

\* A nested color_at entered at the depth of its caller.
NestedDepthFlat(intersection) == intersection.depth - 1

\* The depth a Mirror or Refractor hands to the nested color_at.
NestedDepth(intersection) == U8Inc(intersection.depth)

\* ------------------------------------------------------------ the scenes

\* Screen size of the model (SCREEN_WIDTH x SCREEN_HEIGHT in main.rs).
ScreenW == 2
ScreenH == 1

\* The worker threads of the rayon pool.
Threads == {"t1", "t2"}

V(x, y, z) == Vec(Num(x), Num(y), Num(z))

WHITE == DiffuseColor(HDRColor(Num(1), Num(1), Num(1)))
RED == DiffuseColor(HDRColor(Lit(92, 100), Lit(2, 10), Lit(1, 10)))
GREEN == DiffuseColor(HDRColor(Lit(2, 10), Lit(92, 100), Lit(1, 10)))

\* basic_scene's camera after main's scene.cam.set_angle(PI).
MainCamera == set_angle(Camera_new(V(0, 0, 0), Num(45), ScreenW, ScreenH), PI)

\* basic_scene's light.
MainLight == Light(V(-3, 5, 8), HDRColor(Num(3), Num(3), Num(3)), 0)

\* basic_scene's bg_color.
Sky == HDRColor(0, 0, 0)

\* The Scene literal of basic_scene: bg_color, lights, photons: vec![], cam,
\* renderables.
MakeScene(renderables, lights, bg_color) ==
  [cam |-> MainCamera, renderables |-> renderables, lights |-> lights,
   photons |-> <<>>, bg_color |-> bg_color]

\* Two parallel mirrors facing each other, and a diffuse wall far to the side.
FacingMirrors ==
  MakeScene(<<Plane_new(V(0, 0, 4), V(0, 0, -1), MIRROR),
              Plane_new(V(0, 0, -4), V(0, 0, 1), MIRROR),
              Plane_new(V(22, 0, 0), V(-1, 0, 0), WHITE)>>,
            <<MainLight>>, Sky)

\* Two parallel refractors facing each other.
FacingGlass ==
  MakeScene(<<Plane_new(V(0, 0, 4), V(0, 0, -1), GLASS),
              Plane_new(V(0, 0, -4), V(0, 0, 1), WATER)>>,
            <<MainLight>>, Sky)

\* A mirror sphere over a lit red floor, the sky around it.
MirrorBall ==
  MakeScene(<<Sphere_new(V(0, 2, 4), Num(1), MIRROR),
              Plane_new(V(0, -1, 0), V(0, 1, 0), RED)>>,
            <<MainLight>>, Sky)

\* A white ceiling lit only from above, its far side, and a small sphere
\* showing its normals.
BackLit ==
  MakeScene(<<Plane_new(V(0, 2, 0), V(0, -1, 0), WHITE),
              Sphere_new(V(2, 1, 2), Lit(1, 2), DEBUG_NORMALS)>>,
            <<Light(V(0, 4, 3), HDRColor(Num(3), Num(3), Num(3)), 0)>>, Sky)

\* A white ceiling lit from below by a dim light, and a white wall behind
\* the light that its photons land on.
LitCorner ==
  MakeScene(<<Plane_new(V(0, 2, 0), V(0, -1, 0), WHITE),
              Plane_new(V(0, 0, 6), V(0, 0, -1), WHITE)>>,
            <<Light(V(0, 1, 4), HDRColor(Lit(3, 10), Lit(3, 10), Lit(3, 10)), 0)>>,
            Sky)

Scenes == {FacingMirrors, FacingGlass, MirrorBall, BackLit, LitCorner}

\* A white floor under a unit light 2 above the point (0,-1,2).
Overhead ==
  MakeScene(<<Plane_new(V(0, -1, 0), V(0, 1, 0), WHITE)>>,
            <<Light(V(0, 1, 2), HDRColor(Num(1), Num(1), Num(1)), 0)>>, Sky)

\* A floor and a small sphere under a light of radius 0.2 (two samples)
\* and a point light.
AreaLit ==
  MakeScene(<<Plane_new(V(0, -1, 0), V(0, 1, 0), WHITE),
              Sphere_new(V(0, 0, 2), Lit(1, 2), RED)>>,
            <<Light(V(0, 2, 2), HDRColor(Num(2), Num(2), Num(2)), Lit(2, 10)),
              Light(V(3, 3, 2), HDRColor(Num(3), Num(3), Num(3)), 0)>>, Sky)

\* The scenes color_at is called in on its own.
ProbeScenes == Scenes \cup {Overhead, AreaLit}

\* What the locked texture holds when render is handed it: the bytes of an
\* earlier frame, here all 0 or all 200.
StaleBytes == {0, 200}

\* --------------------------------------------------------------- the state

VARIABLES
  scene,   \* main's scene: cam, renderables, lights, photons, bg_color
  screen,  \* the locked texture's bytes, 4 per pixel, row-major
  phase,   \* "main": the head of main's loop body; "photons": scene.photons
           \* has been rebuilt; "render": a render call is in flight;
           \* "returned": render has returned, the frame is being presented
  tick,    \* main's tick, as a whole number
  task,    \* the per-pixel closure calls of render's par_chunks_mut(4)
  arg,     \* the input of a function applied on its own (SpecCast, ...)
  out      \* its result

vars == <<scene, screen, phase, tick, task, arg, out>>

\* The functions applied on their own take no part in a render.
NoArg == [fn |-> "none"]
NotYet == [done |-> FALSE]
Result(val) == [done |-> TRUE, val |-> val]

\* How many frames past the first the model follows main's loop.
MaxTick == 1

\* The length of the photons vector main rebuilds for every frame.
NumPhotons == 1

\* No frame pushes more color_at calls than this; pushes stop there.
MaxStack == MAX_MIRROR_DEPTH + 3

EXPOSURE == Num(1)
GAMMA == Num(1)

NoColor == [has |-> FALSE]
Some(color) == [has |-> TRUE, color |-> color]

\* The chunks of screen.par_chunks_mut(4).enumerate().
Pixels == 0..((ScreenW * ScreenH) - 1)

NewTask ==
  [pc |-> "todo", stack |-> <<>>, ret |-> NoColor, ncast |-> 0, ncall |-> 0,
   calls |-> {}]

\* A color_at call in progress.
Frame(material, point, normal, ray, depth) ==
  [material |-> material, point |-> point, normal |-> normal, ray |-> ray,
   depth |-> depth, waiting |-> FALSE]

\* A cast or color_at call made: by the color_at at depth from (-1: by
\* render), at depth, on ray.
Call(op, from, depth, ray) == [op |-> op, from |-> from, depth |-> depth, ray |-> ray]

Top(i) == task[i].stack[Len(task[i].stack)]
Pop(stack) == SubSeq(stack, 1, Len(stack) - 1)

Running == {i \in Pixels : task[i].pc = "shade"}

\* The top color_at call of pixel i is at its first statement.
AtEntry(i, kind) ==
  /\ phase = "render"
  /\ task[i].pc = "shade"
  /\ task[i].stack # <<>>
  /\ ~Top(i).waiting
  /\ ~task[i].ret.has
  /\ Top(i).material.kind = kind

\* The top call returns color to its caller.
Return(i, color, casts, calls) ==
  task' = [task EXCEPT ![i].stack = Pop(@), ![i].ret = Some(color),
                       ![i].ncast = @ + casts, ![i].calls = @ \cup calls]

Init ==
  /\ scene \in Scenes
  /\ \E b \in StaleBytes : screen = [k \in 0..((4 * ScreenW * ScreenH) - 1) |-> b]
  /\ phase = "main"
  /\ tick = 0
  /\ task = [i \in Pixels |-> NewTask]
  /\ arg = NoArg
  /\ out = NotYet

\* main calls render(&scene, &mut screen).
RenderCall ==
  /\ phase = "photons"
  /\ phase' = "render"
  /\ task' = [i \in Pixels |-> NewTask]
  /\ UNCHANGED <<scene, screen, tick, arg, out>>

\* ray.origin + ray.direction * intersection.t
HitPoint(ray, intersection) == add(ray.origin, mul(ray.direction, intersection.t))

\* The color_at call made on object at point: normal and material are
\* object's.
FrameOn(object, point, ray, depth) ==
  Frame(object.material, point, Renderable_normal(object, point), ray, depth)

\* The color_at call made on what ray hit.
FrameAt(ray, intersection, depth) ==
  FrameOn(scene.renderables[intersection.renderable_idx],
          HitPoint(ray, intersection), ray, depth)

\* color_at as a function of the call f = Frame(...): the colour the call
\* returns.  draws holds what the one Diffuse evaluation of the chain draws
\* from its rng; fuel bounds the nesting as MaxStack bounds the stack.
RECURSIVE Material_color_at(_, _, _)
Material_color_at(f, draws, fuel) ==
  IF f.material.kind = "Diffuse"
    THEN DiffuseColor_color_at(f.material, f.point, f.normal, scene, f.depth,
                               draws.jitter, draws.chosen)
  ELSE IF f.material.kind = "DebugNormals" THEN DebugNormals_color_at(f.normal)
  ELSE IF TooDeep(f.depth) \/ fuel = 0 THEN BLACK
  ELSE Only({Only({color_scale(IF i.hit
                                 THEN Material_color_at(FrameAt(rr, i, NestedDepth(i)),
                                                        draws, fuel - 1)
                                 ELSE scene.bg_color,
                               IF f.material.kind = "Mirror"
                                 THEN Mirror_factor(f.material, f.depth)
                                 ELSE Refractor_factor(f.material, f.depth)) :
                     i \in {cast(scene, rr, U8Inc(f.depth))}}) :
               rr \in {Reflection(f.point, f.normal, f.ray)}})

\* What a Diffuse evaluation may draw from its rng.
DiffuseDraws ==
  {[jitter |-> j, chosen |-> c] :
     j \in JitterChoices(scene),
     c \in ChooseMultiple(Len(scene.photons), photon_samples(scene))}

\* The call Scene::cast of scene.rs makes on the primitive its scan kept:
\* color_at of the primitive's material at the point the primitive
\* reported and the normal there, for the ray and at the depth cast was
\* given.
CastCall(best, ray, depth) ==
  Only({FrameOn(object, Renderable_intersects(object, ray).point, ray, depth) :
          object \in {scene.renderables[best.idx]}})

\* Scene::cast of scene.rs on the scene of the state: None when the scan
\* kept nothing, else Some of the colour its color_at call returns.  The
\* record holds, beside the colour, the call made: on which primitive, at
\* which point, normal and depth.
Scene_cast(ray, depth) ==
  Only({IF ~best.hit THEN None
        ELSE Only({[hit |-> TRUE, renderable_idx |-> best.idx,
                    point |-> f.point, normal |-> f.normal, depth |-> f.depth,
                    color |-> Material_color_at(f, Only(DiffuseDraws), MaxStack)] :
                     f \in {CastCall(best, ray, depth)}}) :
          best \in {CastScan(scene.renderables, ray, 1, None)}})

\* vec![Light {color: 0, center: 0, radius: 0.0}; 1000]: a photon before
\* its closure has run.
BlankPhoton == Light(Vector_new, BLACK, 0)

\* What a photon's closure draws: a light of the scene and a direction.
PhotonDraws ==
  {[light |-> l, direction |-> d, draws |-> w] :
     l \in 1..Len(scene.lights), d \in RandomNorms, w \in DiffuseDraws}

\* The match of the photon closure on scene.cast(&ray, 0): the photon is
\* moved to just above the surface the ray hits and takes its colour.
PhotonMatch(ray, intersection, draws) ==
  IF ~intersection.hit THEN BlankPhoton
  ELSE Only({Light(add(f.point, mul(f.normal, Lit(1, 1000))),
                   Material_color_at(f, draws, MaxStack), 0) :
               f \in {FrameAt(ray, intersection, 0)}})

\* The closure main runs on each photon.
Photon(draw) ==
  Only({PhotonMatch(ray, cast(scene, ray, 0), draw.draws) :
          ray \in {Ray(scene.lights[draw.light].center, draw.direction)}})

\* The head of main's loop body: the photons vector is built, a closure
\* run on each element, and assigned to scene.photons.  Without lights
\* every photon stays as it was built.
PhotonPass ==
  /\ phase = "main"
  /\ \E photons \in IF Len(scene.lights) = 0
                       THEN {[k \in 1..NumPhotons |-> BlankPhoton]}
                       ELSE {[k \in 1..NumPhotons |-> Photon(d[k])] :
                               d \in [1..NumPhotons -> PhotonDraws]} :
       scene' = [scene EXCEPT !.photons = photons]
  /\ phase' = "photons"
  /\ UNCHANGED <<screen, tick, task, arg, out>>

\* render's match on scene.cast(&pixel_ray, 0).
PixelMatch(i, pixel_ray, intersection) ==
  IF intersection.hit
    THEN task' = [task EXCEPT
           ![i].pc = "shade",
           ![i].stack = <<FrameAt(pixel_ray, intersection, 0)>>,
           ![i].ncast = 1, ![i].ncall = 1,
           ![i].calls = {Call("cast", -1, 0, pixel_ray),
                         Call("color_at", -1, 0, pixel_ray)}]
    ELSE task' = [task EXCEPT ![i].pc = "done", ![i].ncast = 1,
                              ![i].calls = {Call("cast", -1, 0, pixel_ray)}]

PixelCast(i, pixel_ray) ==
  \E intersection \in {cast(scene, pixel_ray, 0)} : PixelMatch(i, pixel_ray, intersection)

\* The closure of render up to its color_at call: the primary ray, the cast
\* at depth 0 and, on a hit, point, object and normal.  On None it is over.
PixelStart(i) ==
  /\ phase = "render"
  /\ task[i].pc = "todo"
  /\ Cardinality(Running) < Cardinality(Threads)
  /\ \E pixel_ray \in {get_ray_from_uv(scene.cam, i % scene.cam.screen_width,
                                         i \div scene.cam.screen_width)} :
       PixelCast(i, pixel_ray)
  /\ UNCHANGED <<scene, screen, phase, tick, arg, out>>

\* How many rays a Diffuse evaluation casts.
RECURSIVE CountSamples(_, _)
CountSamples(lights, l) ==
  IF l > Len(lights) THEN 0 ELSE light_samples(lights[l]) + CountSamples(lights, l + 1)

\* The shadow rays a Diffuse evaluation casts: one per light sample and
\* one per photon chosen.
ShadowCasts(f, jitter, chosen) ==
  UNION {{Call("cast", f.depth, U8Inc(f.depth),
               ShadowRay(f.point, ToLight(scene.lights[l], jitter[l][k], f.point))) :
            k \in 1..Len(jitter[l])} : l \in 1..Len(scene.lights)}
    \cup {Call("cast", f.depth, U8Inc(f.depth),
                ShadowRay(f.point, sub(scene.photons[chosen[k]].center, f.point))) :
             k \in 1..Len(chosen)}

DiffuseColorAt(i) ==
  /\ AtEntry(i, "Diffuse")
  /\ LET f == Top(i)
     IN \E jitter \in JitterChoices(scene),
           chosen \in ChooseMultiple(Len(scene.photons), photon_samples(scene)) :
          LET n == IF TooDeep(f.depth) THEN 0
                   ELSE CountSamples(scene.lights, 1) + Len(chosen)
          IN Return(i,
                    DiffuseColor_color_at(f.material, f.point, f.normal, scene,
                                          f.depth, jitter, chosen),
                    n,
                    IF n = 0 THEN {} ELSE ShadowCasts(f, jitter, chosen))
  /\ UNCHANGED <<scene, screen, phase, tick, arg, out>>

DebugNormalsColorAt(i) ==
  /\ AtEntry(i, "DebugNormals")
  /\ Return(i, DebugNormals_color_at(Top(i).normal), 0, {})
  /\ UNCHANGED <<scene, screen, phase, tick, arg, out>>

\* The match of Mirror::color_at and Refractor::color_at on
\* scene.cast(&ray_reflection, depth + 1): the nested color_at call, or the
\* background colour.  f is the call, nested the depth of the nested one.
ReflectMatch(i, f, factor, ray_reflection, intersection, nested) ==
  IF ~intersection.hit
    THEN Return(i, color_scale(scene.bg_color, factor), 1,
                {Call("cast", f.depth, U8Inc(f.depth), ray_reflection)})
    ELSE /\ Len(task[i].stack) < MaxStack
         /\ task' = [task EXCEPT
              ![i].stack = Append([@ EXCEPT ![Len(@)].waiting = TRUE],
                                  FrameAt(ray_reflection, intersection, nested)),
              ![i].ncast = @ + 1, ![i].ncall = @ + 1,
              ![i].calls = @ \cup {Call("cast", f.depth, U8Inc(f.depth), ray_reflection),
                                   Call("color_at", f.depth, nested, ray_reflection)}]

ReflectCast(i, f, factor, ray_reflection) ==
  \E intersection \in {cast(scene, ray_reflection, U8Inc(f.depth))} :
    ReflectMatch(i, f, factor, ray_reflection, intersection, NestedDepth(intersection))

\* Mirror::color_at and Refractor::color_at up to the nested color_at call,
\* or to the return when there is none.  The two differ in the factor only.
ReflectFrom(i, f, factor, ray_reflection) ==
  IF TooDeep(f.depth) THEN Return(i, BLACK, 0, {})
  ELSE ReflectCast(i, f, factor, ray_reflection)

ReflectColorAt(i, factor) ==
  \E f \in {Top(i)} :
    \E ray_reflection \in {Reflection(f.point, f.normal, f.ray)} :
      ReflectFrom(i, f, factor, ray_reflection)

\* The nested color_at has returned: scale its colour and return.
ReflectReturn(i, kind, factor) ==
  /\ phase = "render"
  /\ task[i].pc = "shade"
  /\ task[i].stack # <<>>
  /\ Top(i).waiting
  /\ Top(i).material.kind = kind
  /\ task[i].ret.has
  /\ Return(i, color_scale(task[i].ret.color, factor), 0, {})

MirrorColorAt(i) ==
  /\ AtEntry(i, "Mirror")
  /\ ReflectColorAt(i, Mirror_factor(Top(i).material, Top(i).depth))
  /\ UNCHANGED <<scene, screen, phase, tick, arg, out>>

MirrorReturn(i) ==
  /\ ReflectReturn(i, "Mirror", Mirror_factor(Top(i).material, Top(i).depth))
  /\ UNCHANGED <<scene, screen, phase, tick, arg, out>>

RefractorColorAt(i) ==
  /\ AtEntry(i, "Refractor")
  /\ ReflectColorAt(i, Refractor_factor(Top(i).material, Top(i).depth))
  /\ UNCHANGED <<scene, screen, phase, tick, arg, out>>

RefractorReturn(i) ==
  /\ ReflectReturn(i, "Refractor", Refractor_factor(Top(i).material, Top(i).depth))
  /\ UNCHANGED <<scene, screen, phase, tick, arg, out>>

\* The bytes render writes for a colour: blue, green, red, alpha.
PixelBytes(color) ==
  LET display_rgb == into_display_rgb(color, EXPOSURE, GAMMA)
  IN <<display_rgb.b, display_rgb.g, display_rgb.r, display_rgb.a>>

\* Chunks of 8 bytes where the code makes chunks of 4.
ChunkOfWide(k) == k \div 8

\* The chunk of par_chunks_mut(4) that byte k of the buffer belongs to.
ChunkOf(k) == k \div 4

\* The rest of the closure: tone-map the colour and write the pixel's chunk.
PixelWrite(i) ==
  /\ phase = "render"
  /\ task[i].pc = "shade"
  /\ task[i].stack = <<>>
  /\ task[i].ret.has
  /\ LET bytes == PixelBytes(task[i].ret.color)
     IN screen' = [k \in DOMAIN screen |->
                     IF ChunkOf(k) = i THEN bytes[(k % 4) + 1] ELSE screen[k]]
  /\ task' = [task EXCEPT ![i].pc = "done"]
  /\ UNCHANGED <<scene, phase, tick, arg, out>>

AllDone == \A i \in Pixels : task[i].pc = "done"

\* for_each has run every closure: render returns.
RenderReturn ==
  /\ phase = "render"
  /\ AllDone
  /\ phase' = "returned"
  /\ UNCHANGED <<scene, screen, tick, task, arg, out>>

\* A loop body that goes on to its end while render is still running.
FrameInFlight == phase \in {"render", "returned"}

\* with_lock has returned and the texture has been presented.
FramePresented == phase = "returned"

\* The end of main's loop body: move the first light, count the tick.
Animate ==
  /\ FramePresented
  /\ tick < MaxTick
  /\ LET a == Mul(Num(tick), Lit(3, 100))
         b == Mul(Num(tick), Lit(2, 100))
         center == Vec(Mul(Lit(32, 10), Sin(a)),
                       Add(Lit(32, 10), Mul(Num(2), Cos(b))),
                       Add(Num(7), Mul(Lit(32, 10), Cos(a))))
     IN scene' = [scene EXCEPT !.lights[1].center = center]
  /\ tick' = tick + 1
  /\ phase' = "main"
  /\ UNCHANGED <<screen, task, arg, out>>

Next ==
  \/ PhotonPass
  \/ RenderCall
  \/ RenderReturn
  \/ Animate
  \/ \E i \in Pixels : PixelWrite(i)
  \/ \E i \in Pixels : MirrorReturn(i)
  \/ \E i \in Pixels : RefractorReturn(i)
  \/ \E i \in Pixels : DebugNormalsColorAt(i)
  \/ \E i \in Pixels : PixelStart(i)
  \/ \E i \in Pixels : DiffuseColorAt(i)
  \/ \E i \in Pixels : MirrorColorAt(i)
  \/ \E i \in Pixels : RefractorColorAt(i)

Spec == Init /\ [][Next]_vars

\* Rendering with the threads and main's loop scheduled fairly: the pool
\* runs every closure it was handed, and main goes on after render.
FairSpec == Spec /\ WF_vars(Next)

\* ------------------------------------------------ color_at called directly

\* The depths color_at is entered at: 0 to MaxProbeDepth, and the last u8.
MaxProbeDepth == 7
ProbeDepths == (0..MaxProbeDepth) \cup {255}

ProbeMaterials == {WHITE, MIRROR, GLASS, DEBUG_NORMALS}

\* point, normal and incoming ray of the call.
ProbeSurfaces ==
  {[point |-> V(0, 0, 4), normal |-> V(0, 0, -1),
    ray |-> Ray(V(0, 0, 0), V(0, 0, 1))],
   [point |-> V(0, -1, 2), normal |-> V(0, 1, 0),
    ray |-> Ray(V(0, 3, 2), V(0, -1, 0))],
   [point |-> V(0, 2, 4), normal |-> V(0, -1, 0),
    ray |-> Ray(V(0, 0, 0), normalized(V(0, 1, 2)))]}

\* Pixel 0's closure is inside one color_at call on arg.frame; nothing
\* else runs.
InitColorAt ==
  /\ scene \in ProbeScenes
  /\ screen = [k \in 0..((4 * ScreenW * ScreenH) - 1) |-> 0]
  /\ phase = "render"
  /\ tick = 0
  /\ \E m \in ProbeMaterials, s \in ProbeSurfaces, d \in ProbeDepths :
       arg = [fn |-> "color_at", frame |-> Frame(m, s.point, s.normal, s.ray, d)]
  /\ task = [i \in Pixels |->
               IF i = 0 THEN [NewTask EXCEPT !.pc = "shade", !.stack = <<arg.frame>>]
               ELSE [NewTask EXCEPT !.pc = "done"]]
  /\ out = NotYet

NextColorAt ==
  \/ \E i \in Pixels : DiffuseColorAt(i)
  \/ \E i \in Pixels : DebugNormalsColorAt(i)
  \/ \E i \in Pixels : MirrorColorAt(i)
  \/ \E i \in Pixels : MirrorReturn(i)
  \/ \E i \in Pixels : RefractorColorAt(i)
  \/ \E i \in Pixels : RefractorReturn(i)

SpecColorAt == InitColorAt /\ [][NextColorAt]_vars

\* The state of a function applied on its own: no render is in flight.
Idle ==
  /\ screen = [k \in 0..((4 * ScreenW * ScreenH) - 1) |-> 0]
  /\ phase = "apply"
  /\ tick = 0
  /\ task = [i \in Pixels |-> NewTask]
  /\ out = NotYet

\* ---------------------------------------------- Scene::cast applied alone

\* The longest primitive list cast is applied to.
MaxPrims == 3

\* Two spheres of one geometry, a plane touching them at their nearest
\* point from the origin, a farther sphere and a floor.  The rays start
\* outside the spheres, but for the last, which starts at a centre.
CastPool ==
  {Sphere_new(V(0, 0, 4), Num(1), MIRROR),
   Sphere_new(V(0, 0, 4), Num(1), WHITE),
   Plane_new(V(0, 0, 3), V(0, 0, -1), WHITE),
   Sphere_new(V(0, 0, 8), Num(1), RED),
   Plane_new(V(0, -1, 0), V(0, 1, 0), RED)}

RECURSIVE ListsOver(_, _)
ListsOver(pool, n) ==
  IF n = 0 THEN {<<>>}
  ELSE ListsOver(pool, n - 1)
         \cup {Append(l, x) : l \in {m \in ListsOver(pool, n - 1) : Len(m) = n - 1},
                              x \in pool}

CastRays ==
  {Ray(V(0, 0, 0), V(0, 0, 1)), Ray(V(0, 0, 0), V(0, 0, -1)),
   Ray(V(0, 0, 0), V(0, -1, 0)), Ray(V(0, 0, 1), V(0, 0, 1)),
   Ray(V(0, 1, 0), normalized(V(0, -1, 2))), Ray(V(0, 0, 4), V(0, 0, 1))}

\* The depths cast is given: render's, and one inside a chain of mirrors.
CastDepths == {0, 5}

\* The scenes have basic_scene's point light: a Diffuse color_at draws
\* nothing at random.
InitCast ==
  /\ scene \in {MakeScene(l, <<MainLight>>, Sky) : l \in ListsOver(CastPool, MaxPrims)}
  /\ arg \in {[fn |-> "cast", ray |-> r, depth |-> d] : r \in CastRays, d \in CastDepths}
  /\ Idle

ApplyCast ==
  /\ arg.fn = "cast"
  /\ ~out.done
  /\ out' = Result(Scene_cast(arg.ray, arg.depth))
  /\ UNCHANGED <<scene, screen, phase, tick, task, arg>>

NextCast == ApplyCast

SpecCast == InitCast /\ [][NextCast]_vars

\* ------------------------------------------- Sphere::intersects applied alone

SphereCenters == {V(0, 0, 0), V(0, 0, 4), V(1, 2, 2)}
SphereRadii == {Num(1), Num(2)}
RayOrigins == {V(0, 0, 0), V(0, 0, -4), V(0, 0, 3), V(3, 0, 4), V(1, 2, 1)}
UnitAxes == RandomNorms

\* The unit direction from a to b.
Toward(a, b) == normalized(sub(b, a))

\* From each origin: along the axes, straight at center and straight away.
SphereRays(center) ==
  {Ray(o, d) : o \in RayOrigins, d \in UnitAxes}
    \cup {Ray(o, Toward(o, center)) : o \in RayOrigins \ {center}}
    \cup {Ray(o, Toward(center, o)) : o \in RayOrigins \ {center}}

InitSphere ==
  /\ scene = MakeScene(<<>>, <<>>, Sky)
  /\ \E c \in SphereCenters, r \in SphereRadii : \E ray \in SphereRays(c) :
       arg = [fn |-> "sphere", sphere |-> Sphere_new(c, r, WHITE), ray |-> ray]
  /\ Idle

\* sphere.intersects(&ray), with the intersection's point and the
\* parametric distance point() places it at.
ApplySphere ==
  /\ arg.fn = "sphere"
  /\ ~out.done
  /\ out' = Result(SphereHit(Sphere_intersects(arg.sphere, arg.ray)))
  /\ UNCHANGED <<scene, screen, phase, tick, task, arg>>

NextSphere == ApplySphere

SpecSphere == InitSphere /\ [][NextSphere]_vars

\* -------------------------------------------- Plane::intersects applied alone

PlaneCenters == {V(0, 0, 0), V(0, -1, 0), V(0, 0, 4)}
PlaneNormals == {V(0, 1, 0), V(0, 0, -1), V(3, 4, 0), V(1, 1, 0)}
PlaneOrigins == {V(0, 0, 0), V(0, -1, 0), V(0, 3, 2), V(-2, 1, 4)}
PlaneDirections ==
  {V(1, 0, 0), V(0, 0, 1), V(0, 1, 0), V(0, -1, 0), V(4, -3, 0), V(1, -1, 0),
   V(3, 4, 0), V(0, 1, -1)}

\* a . b = 0, computed exactly on whole-number components.
Orthogonal(a, b) == (a.x * b.x) + (a.y * b.y) + (a.z * b.z) = 0

\* The ray's direction is given as it is or normalized; normal and
\* direction keep what they were given as.
InitPlane ==
  /\ scene = MakeScene(<<>>, <<>>, Sky)
  /\ \E c \in PlaneCenters, n \in PlaneNormals, o \in PlaneOrigins,
        d \in PlaneDirections, unit \in BOOLEAN :
       arg = [fn |-> "plane", plane |-> Plane_new(c, n, WHITE), normal |-> n,
              direction |-> d,
              ray |-> Ray(o, IF unit THEN normalized(d) ELSE d)]
  /\ Idle

ApplyPlane ==
  /\ arg.fn = "plane"
  /\ ~out.done
  /\ out' = Result(PlaneHit(Plane_intersects(arg.plane, arg.ray)))
  /\ UNCHANGED <<scene, screen, phase, tick, task, arg>>

NextPlane == ApplyPlane

SpecPlane == InitPlane /\ [][NextPlane]_vars

\* ---------------------------------------- into_display_rgb applied alone

\* Channel values below, in and above [0, 1], the ties of the rounding
\* (0.1 * 255 = 25.5, 0.5 * 255 = 127.5) and the special values.
ToneValues ==
  {NInf, Num(-2), -1, 0, 1, 2, Lit(1, 10), Lit(1, 2), Lit(998, 1000), Num(1),
   Num(1) + 1, Lit(5, 2), PInf, NaN}

ToneExposures == {Num(1), Num(2)}
ToneGammas == {Num(1), Num(2)}

InitTone ==
  /\ scene = MakeScene(<<>>, <<>>, Sky)
  /\ \E r \in ToneValues, g \in ToneValues, b \in ToneValues,
        e \in ToneExposures, p \in ToneGammas :
       arg = [fn |-> "tone", color |-> HDRColor(r, g, b), exposure |-> e, gamma |-> p]
  /\ Idle

ApplyTone ==
  /\ arg.fn = "tone"
  /\ ~out.done
  /\ out' = Result(into_display_rgb(arg.color, arg.exposure, arg.gamma))
  /\ UNCHANGED <<scene, screen, phase, tick, task, arg>>

NextTone == ApplyTone

SpecTone == InitTone /\ [][NextTone]_vars

\* ------------------------------------------------ Camera::new applied alone

CameraEyes == {V(0, 0, 0), V(0, 1, -2)}
CameraFovs == {0, Num(45), Num(90)}
CameraWidths == {0, 1, 2}
CameraHeights == {0, 1, 2}

InitCamera ==
  /\ scene = MakeScene(<<>>, <<>>, Sky)
  /\ \E e \in CameraEyes, f \in CameraFovs, w \in CameraWidths, h \in CameraHeights :
       arg = [fn |-> "camera", eye |-> e, fovy |-> f, screen_width |-> w,
              screen_height |-> h]
  /\ Idle

\* Camera::new(eye, fovy, screen_width, screen_height): no argument is
\* tested, a Camera is returned for every input.
ApplyCameraNew ==
  /\ arg.fn = "camera"
  /\ ~out.done
  /\ out' = Result([cam |-> Camera_new(arg.eye, arg.fovy, arg.screen_width,
                                       arg.screen_height),
                    rayed |-> FALSE])
  /\ UNCHANGED <<scene, screen, phase, tick, task, arg>>

\* cam.get_ray_from_uv(u, v) on the camera just built.
ApplyGetRay ==
  /\ arg.fn = "camera"
  /\ out.done
  /\ ~out.val.rayed
  /\ \E u \in 0..1, v \in 0..1 :
       out' = Result([cam |-> out.val.cam, rayed |-> TRUE, u |-> u, v |-> v,
                      ray |-> get_ray_from_uv(out.val.cam, u, v)])
  /\ UNCHANGED <<scene, screen, phase, tick, task, arg>>

NextCamera == ApplyCameraNew \/ ApplyGetRay

SpecCamera == InitCamera /\ [][NextCamera]_vars

\* ------------------------------------- normalize and normalized applied alone

NormalizeComponents == {Num(-2), 0, Num(1), Num(3)}

NormalizeMethods == {"normalize", "normalized", "Plane::new"}

InitNormalize ==
  /\ scene = MakeScene(<<>>, <<>>, Sky)
  /\ \E x \in NormalizeComponents, y \in NormalizeComponents,
        z \in NormalizeComponents, m \in NormalizeMethods :
       arg = [fn |-> "normalize", method |-> m, v |-> Vec(x, y, z)]
  /\ Idle

\* v.normalize(), v.normalized(), or Plane::new(center, v, material), which
\* keeps v.normalized() as the plane's normal.
ApplyNormalize ==
  /\ arg.fn = "normalize"
  /\ ~out.done
  /\ out' = Result([vector |-> IF arg.method = "normalize" THEN normalize(arg.v)
                                ELSE IF arg.method = "normalized" THEN normalized(arg.v)
                                ELSE Plane_new(V(0, 0, 4), arg.v, WHITE).normal,
                    used |-> FALSE])
  /\ UNCHANGED <<scene, screen, phase, tick, task, arg>>

\* The vector goes on into a later computation: it is the normal of a plane
\* through (0,0,4) that a ray from the origin along +z is tested against.
ApplyNormalUse ==
  /\ arg.fn = "normalize"
  /\ out.done
  /\ ~out.val.used
  /\ out' = Result([vector |-> out.val.vector, used |-> TRUE,
                    hit |-> PlaneHit(Plane_intersects(
                              [kind |-> "plane", center |-> V(0, 0, 4),
                               normal |-> out.val.vector, material |-> WHITE],
                              Ray(V(0, 0, 0), V(0, 0, 1))))])
  /\ UNCHANGED <<scene, screen, phase, tick, task, arg>>

NextNormalize == ApplyNormalize \/ ApplyNormalUse

SpecNormalize == InitNormalize /\ [][NextNormalize]_vars

\* ================================================================ the claims

\* The materials whose color_at starts with the depth test.
DepthGuarded == {"Diffuse", "Mirror", "Refractor"}

\* C1: a Diffuse, Mirror or Refractor color_at entered at a depth above
\* MAX_MIRROR_DEPTH casts no ray, makes no nested color_at call and returns
\* black, whatever point, normal, incoming ray and scene it is given.
C1_TerminalRule ==
  (/\ arg.fn = "color_at"
   /\ arg.frame.material.kind \in DepthGuarded
   /\ arg.frame.depth > MAX_MIRROR_DEPTH)
    => /\ task[0].ncast = 0
       /\ task[0].ncall = 0
       /\ task[0].calls = {}
       /\ Len(task[0].stack) <= 1
       /\ (task[0].stack = <<>> => task[0].ret = Some(BLACK))

\* A lit floor point shaded by a Diffuse material one level too deep has
\* come back black.
C1_Witness ==
  /\ arg.fn = "color_at"
  /\ scene = MirrorBall
  /\ arg.frame.material.kind = "Diffuse"
  /\ arg.frame.point = V(0, -1, 2)
  /\ arg.frame.depth = MAX_MIRROR_DEPTH + 1
  /\ task[0].stack = <<>>
  /\ task[0].ret = Some(BLACK)

\* C2: every render call returns, after every pixel's closure has finished,
\* and no pixel makes more than MAX_MIRROR_DEPTH + 2 color_at calls, mirrors
\* facing each other included.
C2_RenderTerminates ==
  /\ [](\A i \in Pixels : task[i].ncall <= MAX_MIRROR_DEPTH + 2)
  /\ (phase = "render") ~> (phase = "returned" /\ AllDone)

\* render has returned from the scene of the two facing mirrors, every
\* pixel's chain of reflections having reached the terminal depth.
C2_Witness ==
  /\ phase = "returned"
  /\ scene.renderables = FacingMirrors.renderables
  /\ \A i \in Pixels : \E c \in task[i].calls :
       c.op = "color_at" /\ c.depth > MAX_MIRROR_DEPTH

\* C3: every cast and every nested color_at call a color_at makes is given
\* a depth strictly greater than its own, so the depths along a chain of
\* calls started by a primary ray increase strictly.
C3_DepthIncreases ==
  \A i \in Pixels :
    /\ \A c \in task[i].calls : c.from >= 0 => c.depth > c.from
    /\ \A k \in 1..(Len(task[i].stack) - 1) :
         task[i].stack[k + 1].depth > task[i].stack[k].depth

\* A color_at at depth 0 has cast and has a nested color_at in progress.
C3_Witness ==
  \E i \in Pixels :
    /\ Len(task[i].stack) >= 2
    /\ task[i].stack[1].depth = 0
    /\ \E c \in task[i].calls : c.op = "cast" /\ c.from = 0 /\ c.depth > 0
    /\ \E c \in task[i].calls : c.op = "color_at" /\ c.from = 0 /\ c.depth > 0

\* The primitives of the scene that arg.ray hits, and for one of them the
\* squared distance from the ray's origin to the point it reports.
CastHits ==
  {k \in 1..Len(scene.renderables) :
     Renderable_intersects(scene.renderables[k], arg.ray).hit}

CastDistance(k) ==
  length_squared(sub(arg.ray.origin,
                     Renderable_intersects(scene.renderables[k], arg.ray).point))

\* C4: Scene.cast returns None exactly when no primitive intersects the
\* ray; otherwise it returns a primitive whose intersection is at the least
\* distance from the ray's origin, the first such primitive of the list.
C4_Nearest ==
  (arg.fn = "cast" /\ out.done)
    => /\ out.val.hit <=> CastHits # {}
       /\ out.val.hit =>
            /\ out.val.renderable_idx \in CastHits
            /\ CastDistance(out.val.renderable_idx) >= 0
            /\ \A k \in CastHits :
                 /\ CastDistance(out.val.renderable_idx) <= CastDistance(k)
                 /\ CastDistance(k) = CastDistance(out.val.renderable_idx)
                      => out.val.renderable_idx <= k

\* cast has chosen between two primitives hit at the same least distance.
C4_Witness ==
  /\ arg.fn = "cast"
  /\ out.done
  /\ out.val.hit
  /\ \E k \in CastHits :
       /\ k > out.val.renderable_idx
       /\ CastDistance(k) = CastDistance(out.val.renderable_idx)

\* Within the tolerance of the arithmetic.
Tolerance == Scale \div 200
Near(a, b) == a - b <= Tolerance /\ b - a <= Tolerance
NearVec(a, b) == Near(a.x, b.x) /\ Near(a.y, b.y) /\ Near(a.z, b.z)

\* Where arg.ray starts with respect to arg.sphere.
SphereOutside ==
  Gt(length_squared(sub(arg.ray.origin, arg.sphere.center)), arg.sphere.radius_squared)

SphereInside ==
  Lt(length_squared(sub(arg.ray.origin, arg.sphere.center)), arg.sphere.radius_squared)

\* |origin - C| - r
GapToSurface ==
  Sub(length(sub(arg.ray.origin, arg.sphere.center)), arg.sphere.radius)

\* C5: for a ray that starts outside a sphere, a direction straight at the
\* centre hits at distance |origin - C| - r from the origin, and a direction
\* straight away from the centre hits nothing.
C5_SphereFromOutside ==
  (arg.fn = "sphere" /\ out.done /\ SphereOutside)
    => /\ arg.ray.direction = Toward(arg.ray.origin, arg.sphere.center)
            => /\ out.val.hit
               /\ Near(out.val.t, GapToSurface)
               /\ NearVec(out.val.point,
                          add(arg.ray.origin, mul(arg.ray.direction, GapToSurface)))
       /\ arg.ray.direction = Toward(arg.sphere.center, arg.ray.origin)
            => ~out.val.hit

\* The unit sphere at the origin, seen from (0,0,-4) along (0,0,1), is hit
\* at (0,0,-1).
C5_Witness ==
  /\ arg.fn = "sphere"
  /\ out.done
  /\ arg.sphere.center = V(0, 0, 0)
  /\ arg.sphere.radius = Num(1)
  /\ arg.ray = Ray(V(0, 0, -4), V(0, 0, 1))
  /\ out.val.hit
  /\ out.val.point = V(0, 0, -1)
  /\ out.val.t = Num(3)

\* t + x: the root of the ray-sphere equation in front of an origin inside
\* the sphere.
ForwardRoot(self, to_center, t) ==
  Add(t, Sqrt(Sub(self.radius_squared,
                  length_squared(sub(mul(arg.ray.direction, t), to_center)))))

\* C6: for a ray that starts inside a sphere the intersection is the
\* forward root t + x, never a negative distance; from the centre itself it
\* is at distance radius.
C6_ForwardRoot ==
  (arg.fn = "sphere" /\ out.done /\ SphereInside)
    => /\ out.val.hit
       /\ ~Lt(out.val.t, 0)
       /\ Near(out.val.t,
               ForwardRoot(arg.sphere, sub(arg.sphere.center, arg.ray.origin),
                           dot(arg.ray.direction,
                               sub(arg.sphere.center, arg.ray.origin))))
       /\ arg.ray.origin = arg.sphere.center => out.val.t = arg.sphere.radius

\* C7: a ray whose direction is orthogonal to a plane's normal has no
\* intersection with the plane, wherever it starts.
C7_ParallelMisses ==
  (arg.fn = "plane" /\ out.done /\ Orthogonal(arg.normal, arg.direction))
    => ~out.val.hit

\* A ray lying in a slanted plane, normalized, has been tested and missed.
C7_Witness ==
  /\ arg.fn = "plane"
  /\ out.done
  /\ arg.normal = V(3, 4, 0)
  /\ arg.direction = V(4, -3, 0)
  /\ arg.ray.direction # arg.direction
  /\ arg.ray.origin = arg.plane.center
  /\ ~out.val.hit

\* The chunk of pixel i, the ray render shoots for it, and whether that ray
\* hits anything.
PixelChunk(i) ==
  <<screen[4 * i], screen[(4 * i) + 1], screen[(4 * i) + 2], screen[(4 * i) + 3]>>

PrimaryRay(i) == get_ray_from_uv(scene.cam, i % ScreenW, i \div ScreenW)

PrimaryHit(i) == cast(scene, PrimaryRay(i), 0).hit

\* C8: after render, the chunk of every pixel i holds blue, green, red and
\* alpha 255 of the colour seen through image position (i mod width,
\* i div width).
C8_EveryPixelWritten ==
  phase = "returned"
    => \A i \in Pixels :
         /\ PrimaryHit(i) <=> task[i].ret.has
         /\ PixelChunk(i) =
              PixelBytes(IF task[i].ret.has THEN task[i].ret.color ELSE scene.bg_color)
         /\ screen[(4 * i) + 3] = 255

\* C9: after render, a pixel whose primary ray hits nothing holds the
\* scene's background colour, whatever the buffer held before.
C9_BackgroundWritten ==
  phase = "returned"
    => \A i \in Pixels : ~PrimaryHit(i) => PixelChunk(i) = PixelBytes(scene.bg_color)

NonNegative(color) == ~Lt(color.r, 0) /\ ~Lt(color.g, 0) /\ ~Lt(color.b, 0)

\* C10: no color_at returns a colour with a negative channel; a Diffuse
\* surface facing away from an unoccluded light gets nothing from it.
C10_NonNegativeColor ==
  \A i \in Pixels : task[i].ret.has => NonNegative(task[i].ret.color)

\* What the claim of neutral tone mapping gives for a channel value v.
NeutralTone(v) ==
  IF Lt(v, 0) THEN 0
  ELSE IF Gt(v, Num(1)) THEN 255
  ELSE RoundDiv(255 * v, Scale)

\* C11: with exposure 1 and gamma 1, into_display_rgb maps a channel value
\* v in [0,1] to round(255 * v), a value above 1 to 255 and a value below 0
\* to 0; every output channel is in 0..255 and alpha is 255.
C11_NeutralToneMapping ==
  (arg.fn = "tone" /\ out.done)
    => /\ out.val.a = 255
       /\ {out.val.r, out.val.g, out.val.b} \subseteq 0..255
       /\ (arg.exposure = Num(1) /\ arg.gamma = Num(1))
            => /\ ~IsNaN(arg.color.r) => out.val.r = NeutralTone(arg.color.r)
               /\ ~IsNaN(arg.color.g) => out.val.g = NeutralTone(arg.color.g)
               /\ ~IsNaN(arg.color.b) => out.val.b = NeutralTone(arg.color.b)

\* (0.1, 2.5, -2.0) at neutral settings has become (26, 255, 0), alpha 255:
\* 25.5 rounds up, 2.5 clamps to 255, -2 clamps to 0.
C11_Witness ==
  /\ arg.fn = "tone"
  /\ out.done
  /\ arg.exposure = Num(1)
  /\ arg.gamma = Num(1)
  /\ arg.color = HDRColor(Lit(1, 10), Lit(5, 2), Num(-2))
  /\ out.val = [r |-> 26, g |-> 255, b |-> 0, a |-> 255]

\* The colour render computes for pixel i when nothing is drawn at random
\* (point lights, no photon samples): color_at of what the primary ray hits.
PixelColor(i) ==
  Material_color_at(FrameAt(PrimaryRay(i), cast(scene, PrimaryRay(i), 0), 0),
                    Only(DiffuseDraws), MaxStack)

\* C12: a byte of the buffer changes only in the step in which the task of
\* its own pixel writes, and no other task moves in that step; a task that
\* has run is not run again in the same render call and render returns only
\* when all have run; and however the tasks interleave, after render a
\* pixel whose primary ray hits holds the bytes of the colour of that hit,
\* while a pixel whose ray hits nothing is never written.
C12_DisjointWrites ==
  /\ [][\A k \in DOMAIN screen :
          screen'[k] # screen[k]
            => /\ phase = "render"
               /\ task[k \div 4].pc = "shade"
               /\ task'[k \div 4].pc = "done"
               /\ \A j \in Pixels \ {k \div 4} : task'[j] = task[j]]_vars
  /\ [][\A i \in Pixels :
          /\ (task[i].pc = "done" /\ phase = "render" /\ phase' = "render")
               => task'[i] = task[i]
          /\ task'[i].pc = "todo" => (task[i].pc = "todo" \/ phase # "render")
          /\ ~PrimaryHit(i) => PixelChunk(i)' = PixelChunk(i)]_vars
  /\ [](phase = "returned"
          => /\ AllDone
             /\ \A i \in Pixels :
                  PrimaryHit(i) => PixelChunk(i) = PixelBytes(PixelColor(i)))

\* The tasks ran out of order and side by side: pixel 1 has written its
\* chunk while pixel 0, whose ray hits too, is still inside color_at and
\* its chunk still holds what it held before the call.
C12_Witness ==
  /\ phase = "render"
  /\ tick = 0
  /\ task[1].pc = "done"
  /\ task[0].pc = "shade"
  /\ PrimaryHit(0)
  /\ PrimaryHit(1)
  /\ PixelChunk(1) = PixelBytes(PixelColor(1))
  /\ PixelChunk(0) = <<200, 200, 200, 200>>

\* C13: the scene does not change in any step from or to a state in which
\* a render call is in flight; the lights change only between render's
\* return and the head of the next loop body, the photons only at the head
\* of a loop body before render is called, and camera, primitives and
\* background never.
C13_SceneStableInRender ==
  [][/\ (phase = "render" \/ phase' = "render") => scene' = scene
     /\ scene'.lights # scene.lights => (phase = "returned" /\ phase' = "main")
     /\ scene'.photons # scene.photons => (phase = "main" /\ phase' = "photons")
     /\ scene'.cam = scene.cam
     /\ scene'.renderables = scene.renderables
     /\ scene'.bg_color = scene.bg_color]_vars

\* The second render call is in flight, on a scene whose light was moved
\* and whose photons were rebuilt after the first call returned.
C13_Witness ==
  /\ phase = "render"
  /\ tick = 1
  /\ \E s \in Scenes : s.renderables = scene.renderables
                        /\ s.lights # scene.lights
  /\ Len(scene.photons) = NumPhotons
  /\ \E i \in Pixels : task[i].pc = "shade"

\* A configuration the spec calls invalid.
CameraInvalid == arg.screen_width = 0 \/ arg.screen_height = 0 \/ arg.fovy = 0

\* C14: Camera::new with screen width 0, screen height 0 or field of view 0
\* fails: it returns no Camera, and no ray is generated from such a camera.
C14_InvalidCameraRefused ==
  (arg.fn = "camera" /\ CameraInvalid) => ~out.done

HasNaN(v) == IsNaN(v.x) \/ IsNaN(v.y) \/ IsNaN(v.z)

\* C15: normalize and normalized of the zero vector do not give a vector
\* with NaN components, and no such vector goes on into a later computation.
C15_ZeroVectorDefined ==
  (arg.fn = "normalize" /\ arg.v = Vector_new /\ out.done) => ~HasNaN(out.val.vector)

\* The standard vector refraction formula for a unit direction d meeting a
\* surface of normal n and refractive index ior: the ratio is 1/ior on
\* entering (d . n < 0) and ior on leaving, where the normal is flipped; a
\* negative discriminant is total internal reflection, d - 2 (d . n) n.
Refracted(d, n, ior) ==
  LET entering == Lt(dot(d, n), 0)
      eta == IF entering THEN Div(Num(1), ior) ELSE ior
      facing == IF entering THEN n ELSE mul(n, Num(-1))
      cosi == FAbs(dot(d, n))
      k == Sub(Num(1), Mul(Mul(eta, eta), Sub(Num(1), Mul(cosi, cosi))))
  IN IF Lt(k, 0) THEN sub(d, mul(n, Mul(Num(2), dot(d, n))))
     ELSE add(mul(d, eta), mul(facing, Sub(Mul(eta, cosi), Sqrt(k))))

\* C16: the ray a Refractor color_at casts runs along the direction Snell's
\* law gives for its refractive_index (the mirror direction only on total
\* internal reflection); at normal incidence it continues along the
\* incoming direction.
C16_RefractorRefracts ==
  (/\ arg.fn = "color_at"
   /\ arg.frame.material.kind = "Refractor"
   /\ ~TooDeep(arg.frame.depth))
    => \A c \in task[0].calls :
         (c.op = "cast" /\ c.from = arg.frame.depth)
           => NearVec(c.ray.direction,
                      Refracted(arg.frame.ray.direction, arg.frame.normal,
                                arg.frame.material.refractive_index))

\* C17: the color_at a Mirror or Refractor at depth d calls on what its
\* secondary ray hits is entered at depth d + 1, so the calls of a chain
\* are at consecutive depths.
C17_DepthCountsBounces ==
  \A i \in Pixels :
    /\ \A c \in task[i].calls :
         (c.op = "color_at" /\ c.from >= 0) => c.depth = c.from + 1
    /\ \A k \in 1..(Len(task[i].stack) - 1) :
         task[i].stack[k + 1].depth = task[i].stack[k].depth + 1

\* A Diffuse color_at called on its own, below the terminal depth, has
\* returned.
DiffuseDone ==
  /\ arg.fn = "color_at"
  /\ arg.frame.material.kind = "Diffuse"
  /\ ~TooDeep(arg.frame.depth)
  /\ task[0].stack = <<>>
  /\ task[0].ret.has

\* The nearest hit of the shadow ray from the point of the call toward the
\* sample at light.center + rnd * light.radius, as Scene::cast reports it,
\* and whether it is nearer than that sample.
ShadowHit(light, rnd) ==
  cast(scene, Ray(arg.frame.point, normalized(ToLight(light, rnd, arg.frame.point))),
       arg.frame.depth + 1)

InShadow(light, rnd) ==
  /\ ShadowHit(light, rnd).hit
  /\ ShadowHit(light, rnd).t < length(ToLight(light, rnd, arg.frame.point))

\* The sum over the lights l.. and their samples k.. of what(l, k).
RECURSIVE SumOver(_, _, _, _)
SumOver(what(_, _), jitter, l, k) ==
  IF l > Len(jitter) THEN BLACK
  ELSE IF k > Len(jitter[l]) THEN SumOver(what, jitter, l + 1, 1)
  ELSE color_add(what(l, k), SumOver(what, jitter, l, k + 1))

\* How many samples the claim gives the lights from l on: one for a point
\* light, 1 + round(5 * radius) for a larger one.
RECURSIVE SamplesFrom(_)
SamplesFrom(l) ==
  IF l > Len(scene.lights) THEN 0
  ELSE (IF scene.lights[l].radius = 0 THEN 1
        ELSE 1 + RoundDiv(5 * scene.lights[l].radius, Scale))
         + SamplesFrom(l + 1)

\* C18: a Diffuse color_at casts one shadow ray per light sample, one
\* sample for a point light; a sample whose shadow ray has its nearest hit,
\* as Scene::cast reports it, nearer than the sampled light position adds
\* nothing, and a sample whose shadow ray hits nothing, or nothing nearer
\* than the light, is counted.
C18_ShadowTest ==
  DiffuseDone
    => /\ task[0].ncast = SamplesFrom(1)
       /\ \E jitter \in JitterChoices(scene) :
            LET counted(l, k) ==
                  IF InShadow(scene.lights[l], jitter[l][k]) THEN BLACK
                  ELSE SampleColor(scene.lights[l],
                                   ToLight(scene.lights[l], jitter[l][k], arg.frame.point),
                                   arg.frame.normal, Len(jitter[l]))
            IN /\ task[0].calls = ShadowCasts(arg.frame, jitter, <<>>)
               /\ task[0].ret.color =
                    color_mul(arg.frame.material.color, SumOver(counted, jitter, 1, 1))

\* Under the ceiling that hides the light, the floor point (0,-1,2) has
\* cast its one shadow ray and got nothing from the light.
C18_Witness ==
  /\ DiffuseDone
  /\ scene = BackLit
  /\ arg.frame.point = V(0, -1, 2)
  /\ arg.frame.depth = 0
  /\ task[0].ncast = 1
  /\ InShadow(scene.lights[1], Vec(Num(1), 0, 0))
  /\ task[0].ret.color = BLACK

\* What the claim of the illumination formula gives for one sample:
\* light.color * cos(theta) / distance^2 / samples, theta between the
\* normal and the unit direction to the light.
LambertSample(light, to_light, normal, samples) ==
  color_scale(light.color,
              Div(Div(dot(normalized(to_light), normal), length_squared(to_light)),
                  Num(samples)))

NearColor(a, b) == Near(a.r, b.r) /\ Near(a.g, b.g) /\ Near(a.b, b.b)

\* C19: what a Diffuse color_at returns is the albedo times the sum over
\* the lights of the average over the light's unoccluded samples of
\* light.color * cos(theta) / distance^2.
C19_LambertInverseSquare ==
  DiffuseDone
    => \E jitter \in JitterChoices(scene) :
         LET lit(l, k) ==
               IF InShadow(scene.lights[l], jitter[l][k]) THEN BLACK
               ELSE LambertSample(scene.lights[l],
                                  ToLight(scene.lights[l], jitter[l][k], arg.frame.point),
                                  arg.frame.normal, Len(jitter[l]))
         IN /\ task[0].calls = ShadowCasts(arg.frame, jitter, <<>>)
            /\ NearColor(task[0].ret.color,
                         color_mul(arg.frame.material.color, SumOver(lit, jitter, 1, 1)))

\* C20: the point a plane intersection reports is ray.origin +
\* ray.direction * t and lies on the plane, (point - center) . normal = 0,
\* wherever the ray starts.
C20_PlanePointOnRay ==
  (arg.fn = "plane" /\ out.done /\ out.val.hit)
    => /\ NearVec(out.val.point,
                  add(arg.ray.origin, mul(arg.ray.direction, out.val.t)))
       /\ Near(dot(sub(out.val.point, arg.plane.center), arg.plane.normal), 0)

\* What a Diffuse color_at returns and the rays it casts when it reads the
\* lights alone (point lights: nothing is drawn at random) and no photon.
LightsOnly(f) ==
  DiffuseColor_color_at(f.material, f.point, f.normal, scene, f.depth,
                        Only(JitterChoices(scene)), <<>>)

LightCasts(f) ==
  IF TooDeep(f.depth) THEN {} ELSE ShadowCasts(f, Only(JitterChoices(scene)), <<>>)

\* The colour of pixel i computed without any photon.
PhotonFreeColor(i) ==
  Material_color_at(FrameAt(PrimaryRay(i), cast(scene, PrimaryRay(i), 0), 0),
                    [jitter |-> Only(JitterChoices(scene)), chosen |-> <<>>],
                    MaxStack)

\* C21: the photon path is disabled.  The number of photon samples is 0
\* whatever scene.photons holds; a Diffuse color_at casts the shadow rays of
\* the lights and no other ray, and returns what the lights alone give;
\* main rebuilds scene.photons before every call of render; and after
\* render a pixel whose primary ray hits holds the bytes of the colour
\* computed without any photon, so that the buffer is the same whatever
\* the photons are.
C21_PhotonsDisabled ==
  /\ [](photon_samples(scene) = 0)
  /\ [][\A i \in Pixels :
          (AtEntry(i, "Diffuse") /\ task'[i] # task[i])
            => /\ task'[i].ncast = task[i].ncast + Cardinality(LightCasts(Top(i)))
               /\ task'[i].calls = task[i].calls \cup LightCasts(Top(i))
               /\ task'[i].ret = Some(LightsOnly(Top(i)))]_vars
  /\ [][(phase # "render" /\ phase' = "render")
          => (phase = "photons" /\ Len(scene.photons) = NumPhotons)]_vars
  /\ [][(phase # "photons" /\ phase' = "photons")
          => (phase = "main" /\ Len(scene'.photons) = NumPhotons)]_vars
  /\ [](phase = "returned"
          => \A i \in Pixels :
               PrimaryHit(i) => PixelChunk(i) = PixelBytes(PhotonFreeColor(i)))

\* render has returned on a scene that holds a photon with a colour, lying
\* in the open over the diffuse surface pixel i shows: the pixel holds the
\* colour of the lights alone, and would hold other bytes had the photon
\* been sampled.
C21_Witness ==
  /\ phase = "returned"
  /\ Len(scene.photons) = NumPhotons
  /\ scene.photons[1].color # BLACK
  /\ \E i \in Pixels :
       LET f == FrameAt(PrimaryRay(i), cast(scene, PrimaryRay(i), 0), 0)
       IN /\ PrimaryHit(i)
          /\ f.material.kind = "Diffuse"
          /\ PixelChunk(i) = PixelBytes(LightsOnly(f))
          /\ PixelBytes(DiffuseColor_color_at(f.material, f.point, f.normal, scene,
                                              f.depth, Only(JitterChoices(scene)),
                                              <<1>>))
               # PixelBytes(LightsOnly(f))

====
